---- MODULE Spec2Model ----
(***************************************************************************)
(* The channel indexing and deduplication pipeline of the subtitle bot:    *)
(* ChannelIndexer (indexer.py), the file operations of Database            *)
(* (database.py) and the filename cleaning of Utils (utils.py).            *)
(*                                                                         *)
(* Every `await` of the Python code is a point where the asyncio scheduler *)
(* may run another task, so each action below is the code between two      *)
(* awaits of one task.  A store call takes effect at one instant: the      *)
(* action that models the call reads or writes `files` atomically.         *)
(*                                                                         *)
(* Strings are sequences of one-character strings, so that the regular     *)
(* expressions of clean_filename and str.lower() are computed, not assumed.*)
(***************************************************************************)
EXTENDS Integers, Sequences, FiniteSets, TLC

(***************************************************************************)
(* Characters and strings                                                  *)
(***************************************************************************)

\* string.ascii_uppercase and string.ascii_lowercase, position by position.
UpperSeq ==
  <<"A", "B", "C", "D", "E", "F", "G", "H", "I", "J", "K", "L", "M",
    "N", "O", "P", "Q", "R", "S", "T", "U", "V", "W", "X", "Y", "Z">>

LowerSeq ==
  <<"a", "b", "c", "d", "e", "f", "g", "h", "i", "j", "k", "l", "m",
    "n", "o", "p", "q", "r", "s", "t", "u", "v", "w", "x", "y", "z">>

Digits == {"0", "1", "2", "3", "4", "5", "6", "7", "8", "9"}

Range(f) == {f[i] : i \in DOMAIN f}

\* \w of the re module: letters, digits and the underscore.
IsWord(c) == c \in Range(LowerSeq) \cup Range(UpperSeq) \cup Digits \cup {"_"}

\* \s of the re module (the names of the model hold no other white space than the blank).
IsSpace(c) == c = " "

\* str.lower() on one character.
LowerChar(c) ==
  IF \E i \in DOMAIN UpperSeq : UpperSeq[i] = c
  THEN LowerSeq[CHOOSE i \in DOMAIN UpperSeq : UpperSeq[i] = c]
  ELSE c

\* str.lower()
Lower(s) == [i \in 1..Len(s) |-> LowerChar(s[i])]

\* s[i..] starts with the literal lit.
StartsAt(s, i, lit) ==
  /\ i + Len(lit) - 1 <= Len(s)
  /\ \A k \in 1..Len(lit) : s[i + k - 1] = lit[k]

\* str.endswith
EndsWith(s, lit) == Len(lit) <= Len(s) /\ StartsAt(s, Len(s) - Len(lit) + 1, lit)

\* Membership of a character in a class of the re module: \w, \s or \S.
InClass(cls, c) ==
  CASE cls = "w" -> IsWord(c)
    [] cls = "s" -> IsSpace(c)
    [] cls = "S" -> ~IsSpace(c)

\* Length of the longest run of characters of the class, from s[i] (a greedy +).
RECURSIVE RunLen(_, _, _)
RunLen(s, i, cls) ==
  IF i <= Len(s) /\ InClass(cls, s[i]) THEN 1 + RunLen(s, i + 1, cls) ELSE 0

\* Length of the match of r'@\w+' at s[i], 0 when there is none.
MatchHandle(s, i) ==
  IF s[i] = "@" /\ RunLen(s, i + 1, "w") > 0
  THEN 1 + RunLen(s, i + 1, "w") ELSE 0

\* Length of the match of r't\.me/\w+' at s[i], 0 when there is none.
MatchTme(s, i) ==
  IF StartsAt(s, i, <<"t", ".", "m", "e", "/">>) /\ RunLen(s, i + 5, "w") > 0
  THEN 5 + RunLen(s, i + 5, "w") ELSE 0

\* Length of the match of r'https?://\S+' at s[i], 0 when there is none.
MatchUrl(s, i) ==
  LET http  == <<"h", "t", "t", "p">>
      sep   == <<":", "/", "/">>
      withS == StartsAt(s, i, http \o <<"s">> \o sep)
      plain == StartsAt(s, i, http \o sep)
      head  == IF withS THEN 8 ELSE 7
  IN  IF (withS \/ plain) /\ RunLen(s, i + head, "S") > 0
      THEN head + RunLen(s, i + head, "S") ELSE 0

\* Length of the match of the non-greedy r'<open>.*?<close>' at s[i].
MatchGroup(s, i, open, close) ==
  LET ends == {j \in (i + 1)..Len(s) : s[j] = close}
  IN  IF s[i] = open /\ ends # {}
      THEN (CHOOSE j \in ends : \A k \in ends : j <= k) - i + 1 ELSE 0

\* Length of the match at s[i] of the pattern of Config.CLEAN_PATTERNS named pat.
Match(pat, s, i) ==
  CASE pat = "handle"  -> MatchHandle(s, i)
    [] pat = "tme"     -> MatchTme(s, i)
    [] pat = "url"     -> MatchUrl(s, i)
    [] pat = "bracket" -> MatchGroup(s, i, "[", "]")
    [] pat = "paren"   -> MatchGroup(s, i, "(", ")")

\* re.sub(pattern, '', s): the leftmost matches, left to right, are deleted.
RECURSIVE SubEmpty(_, _, _)
SubEmpty(pat, s, i) ==
  IF i > Len(s) THEN <<>>
  ELSE IF Match(pat, s, i) > 0 THEN SubEmpty(pat, s, i + Match(pat, s, i))
  ELSE <<s[i]>> \o SubEmpty(pat, s, i + 1)

\* Config.CLEAN_PATTERNS, in the order of the list.
CLEAN_PATTERNS == <<"handle", "tme", "url", "bracket", "paren">>

\* The loop of clean_filename over the patterns: cleaned = re.sub(pattern, '', cleaned).
RECURSIVE RemovePatterns(_, _)
RemovePatterns(s, k) ==
  IF k > Len(CLEAN_PATTERNS) THEN s
  ELSE RemovePatterns(SubEmpty(CLEAN_PATTERNS[k], s, 1), k + 1)

\* re.sub(r'\s+', ' ', s)
RECURSIVE CollapseSpaces(_, _)
CollapseSpaces(s, i) ==
  IF i > Len(s) THEN <<>>
  ELSE IF IsSpace(s[i])
       THEN <<" ">> \o CollapseSpaces(s, i + RunLen(s, i, "s"))
       ELSE <<s[i]>> \o CollapseSpaces(s, i + 1)

\* str.strip()
Strip(s) ==
  LET keep == {i \in 1..Len(s) : ~IsSpace(s[i])}
  IN  IF keep = {} THEN <<>>
      ELSE LET lo == CHOOSE i \in keep : \A k \in keep : i <= k
               hi == CHOOSE i \in keep : \A k \in keep : k <= i
           IN  SubSeq(s, lo, hi)

\* The extensions of r'\.(srt|ass|sub|ssa)$' in clean_filename.
CleanExtensions ==
  {<<".", "s", "r", "t">>, <<".", "a", "s", "s">>,
   <<".", "s", "u", "b">>, <<".", "s", "s", "a">>}

\* re.sub(r'\.(srt|ass|sub|ssa)$', '', s, flags=re.IGNORECASE)
StripExtension(s) ==
  IF \E e \in CleanExtensions : EndsWith(Lower(s), e)
  THEN SubSeq(s, 1, Len(s) - 4) ELSE s

\* Utils.clean_filename
clean_filename(filename) ==
  StripExtension(Strip(CollapseSpaces(RemovePatterns(filename, 1), 1)))

\* The extensions of ChannelIndexer.is_subtitle_file.
subtitle_extensions ==
  CleanExtensions \cup {<<".", "v", "t", "t">>}

\* is_subtitle_file comparing the name as it is, without lower().
is_subtitle_file_cased(filename) ==
  \E e \in subtitle_extensions : EndsWith(filename, e)

\* ChannelIndexer.is_subtitle_file
is_subtitle_file(filename) ==
  \E e \in subtitle_extensions : EndsWith(Lower(filename), e)

\* A year that is absent (None).
NoYear == 0

\* int() of one decimal digit.
DigitVal(c) ==
  CASE c = "0" -> 0 [] c = "1" -> 1 [] c = "2" -> 2 [] c = "3" -> 3 [] c = "4" -> 4
    [] c = "5" -> 5 [] c = "6" -> 6 [] c = "7" -> 7 [] c = "8" -> 8 [] c = "9" -> 9

\* r'(19\d{2}|20\d{2})' matches at position i.
MatchYear(s, i) ==
  /\ i + 3 <= Len(s)
  /\ StartsAt(s, i, <<"1", "9">>) \/ StartsAt(s, i, <<"2", "0">>)
  /\ s[i + 2] \in Digits /\ s[i + 3] \in Digits

\* extract_year applied to the cleaned title instead of the file name.
extract_year_cleaned(filename) ==
  LET name == clean_filename(filename)
      hits == {i \in 1..Len(name) : MatchYear(name, i)}
  IN  IF hits = {} THEN NoYear
      ELSE LET i == CHOOSE h \in hits : \A k \in hits : h <= k
           IN  1000 * DigitVal(name[i]) + 100 * DigitVal(name[i + 1])
                 + 10 * DigitVal(name[i + 2]) + DigitVal(name[i + 3])

\* Utils.extract_year: int() of the leftmost match, or None.
extract_year(filename) ==
  LET hits == {i \in 1..Len(filename) : MatchYear(filename, i)}
  IN  IF hits = {} THEN NoYear
      ELSE LET i == CHOOSE h \in hits : \A k \in hits : h <= k
           IN  1000 * DigitVal(filename[i]) + 100 * DigitVal(filename[i + 1])
                 + 10 * DigitVal(filename[i + 2]) + DigitVal(filename[i + 3])

\* The patterns of extract_quality tried in the opposite order: codec, source,
\* resolution.
quality_patterns_codec_first ==
  << <<<<"h", "e", "v", "c">>, <<"x", "2", "6", "4">>, <<"x", "2", "6", "5">>, <<"h", ".", "2", "6", "4">>, <<"h", ".", "2", "6", "5">>>>,
     <<<<"b", "l", "u", "r", "a", "y">>, <<"b", "r", "r", "i", "p">>, <<"w", "e", "b", "r", "i", "p">>, <<"h", "d", "r", "i", "p">>, <<"d", "v", "d", "r", "i", "p">>>>,
     <<<<"4", "k">>, <<"2", "1", "6", "0", "p">>, <<"1", "0", "8", "0", "p">>, <<"7", "2", "0", "p">>, <<"4", "8", "0", "p">>, <<"3", "6", "0", "p">>>> >>

\* Utils.extract_quality: quality_patterns, the alternatives of each in lower case.
quality_patterns ==
  << <<<<"4", "k">>, <<"2", "1", "6", "0", "p">>, <<"1", "0", "8", "0", "p">>, <<"7", "2", "0", "p">>, <<"4", "8", "0", "p">>, <<"3", "6", "0", "p">>>>,
     <<<<"b", "l", "u", "r", "a", "y">>, <<"b", "r", "r", "i", "p">>, <<"w", "e", "b", "r", "i", "p">>, <<"h", "d", "r", "i", "p">>, <<"d", "v", "d", "r", "i", "p">>>>,
     <<<<"h", "e", "v", "c">>, <<"x", "2", "6", "4">>, <<"x", "2", "6", "5">>, <<"h", ".", "2", "6", "4">>, <<"h", ".", "2", "6", "5">>>> >>

\* re.search(pattern, filename, re.IGNORECASE): the text of the leftmost match, the
\* first alternative that matches there; <<>> when nothing matches.
SearchAlternatives(filename, alts) ==
  LET low  == Lower(filename)
      hits == {i \in 1..Len(low) : \E a \in 1..Len(alts) : StartsAt(low, i, alts[a])}
  IN  IF hits = {} THEN <<>>
      ELSE LET i == CHOOSE h \in hits : \A k \in hits : h <= k
               a == CHOOSE x \in 1..Len(alts) :
                      /\ StartsAt(low, i, alts[x])
                      /\ \A y \in 1..(x - 1) : ~StartsAt(low, i, alts[y])
           IN  SubSeq(filename, i, i + Len(alts[a]) - 1)

\* Utils.extract_quality: the match of the first pattern that matches, or None (<<>>).
RECURSIVE QualityFrom(_, _)
QualityFrom(filename, k) ==
  IF k > Len(quality_patterns) THEN <<>>
  ELSE LET found == SearchAlternatives(filename, quality_patterns[k])
       IN  IF found # <<>> THEN found ELSE QualityFrom(filename, k + 1)

extract_quality(filename) == QualityFrom(filename, 1)

\* The year datetime.now().year gives when the clock reads t.
current_year(t) == 2026 + t

\* Utils.is_valid_year.
is_valid_year(year, t) ==
  year # NoYear /\ 1900 <= year /\ year <= current_year(t) + 2

\* Utils.extract_movie_info: the clean title, with the case of the file name kept.
extract_movie_info(filename) ==
  [clean_title |-> clean_filename(filename), year |-> extract_year(filename),
   quality |-> extract_quality(filename)]

(***************************************************************************)
(* Bounds and inputs                                                       *)
(***************************************************************************)

\* Messages one run of index_channel_history reads at most.
MaxHistory == 2

\* Largest value of the clock read by datetime.now().
MaxTime == 1

\* Largest download count a record reaches.
MaxDownloads == 2

\* Dot-separated parts of a file name given to extract_movie_info.
MaxParts == 2

\* Batches of users one broadcast sends to at most.
MaxBatches == 2

\* A timestamp field that is not set (None, or a key the dict does not hold).
NoTime == -1

\* A pyrogram Message: its id and, when it carries one, its document.
Msg(id, doc, name, size, fid) ==
  [id |-> id, document |-> doc, file_name |-> name, file_size |-> size, file_id |-> fid]

\* The messages the source channel may hold.  1, 2 and 3 are three versions of one
\* title (2 names a year and two qualities inside a bracket, 3 has its extension
\* in upper case), 4 is the same title in upper case, 5 is no subtitle, 6 has no document, 7 is a subtitle whose name
\* is all removable patterns.
Messages ==
  { Msg(1, TRUE, <<"a", ".", "s", "r", "t">>, 1, 1),
    Msg(2, TRUE, <<"[", "2", "0", "9", "9", " ", "x", "2", "6", "4", " ", "7", "2", "0", "p", "]", "a", ".", "s", "r", "t">>,
        2, 2),
    Msg(3, TRUE, <<"@", "u", " ", "a", ".", "S", "R", "T">>, 3, 3),
    Msg(4, TRUE, <<"A", ".", "s", "r", "t">>, 2, 4),
    Msg(5, TRUE, <<"a", ".", "t", "x", "t">>, 1, 5),
    Msg(6, FALSE, <<>>, 0, 0),
    Msg(7, TRUE, <<"[", "x", "]", ".", "s", "r", "t">>, 1, 7) }

NoMsg == Msg(0, FALSE, <<>>, 0, 0)

\* The file name ends in .srt, .ass, .sub, .ssa or .vtt, in any case of letters.
HasSubtitleExtension(name) ==
  /\ Len(name) >= 4
  /\ name[Len(name) - 3] = "."
  /\ \E e \in {<<"s", "r", "t">>, <<"a", "s", "s">>, <<"s", "u", "b">>,
                <<"s", "s", "a">>, <<"v", "t", "t">>} :
       \A k \in 1..3 : name[Len(name) - 3 + k] \in {e[k], UpperSeq[CHOOSE i \in 1..26 : LowerSeq[i] = e[k]]}

\* What visiting message m adds to the history fields documents and subtitles of a
\* run: the documents visited and, of these, the ones with a subtitle extension.
Visit(stats, m) ==
  [stats EXCEPT !.total_messages = @ + 1,
                !.documents = IF m.document THEN @ + 1 ELSE @,
                !.subtitles = IF m.document /\ HasSubtitleExtension(m.file_name)
                              THEN @ + 1 ELSE @]

\* Utils.extract_movie_info and is_subtitle_file, tabulated over the file names of
\* Messages.
Names == {m.file_name : m \in Messages}

movie_info[name \in Names] == extract_movie_info(name)

subtitle_name[name \in Names] == is_subtitle_file(name)

\* The parts file names are made of: a title word, years bare, in brackets, in
\* parentheses and inside a longer number, a number that is no year, and tags of
\* resolution, source and codec in several cases of letters.
Parts ==
  { <<"a">>,
    <<"2", "0", "1", "9">>, <<"[", "1", "9", "9", "9", "]">>,
    <<"(", "2", "0", "2", "1", ")">>, <<"1", "8", "9", "9">>,
    <<"1", "2", "0", "1", "9", "0">>,
    <<"1", "0", "8", "0", "p">>, <<"7", "2", "0", "P">>, <<"4", "K">>,
    <<"B", "l", "u", "R", "a", "y">>, <<"w", "e", "b", "r", "i", "p">>,
    <<"x", "2", "6", "4">>, <<"H", ".", "2", "6", "5">>, <<"h", "2", "6", "4">> }

\* The file names of n parts, each followed by a dot, with the extension srt.
RECURSIVE NamesOf(_)
NamesOf(n) ==
  IF n = 0 THEN {<<"s", "r", "t">>}
  ELSE {p \o <<".">> \o rest : p \in Parts, rest \in NamesOf(n - 1)}

\* The file names extract_movie_info is called with.
Filenames == UNION {NamesOf(n) : n \in 1..MaxParts}

\* The start requests made to the admin's ChannelIndexer, one run_indexing task each.
ScanTasks == {"s1", "s2"}

\* Concurrent runs of the handle_new_document handler.
MonTasks == {"m1"}

\* Tasks that run process_message.
Indexers == ScanTasks \cup MonTasks

\* Concurrent calls of clean_database.
CleanTasks == {"c1", "c2"}

\* The call of clean_database in the compositions with one pass at a time.
SoloCleanTasks == {"c1"}

\* Concurrent runs of handle_file_callback.
DlTasks == {"d1"}

\* Calls of BroadcastManager.broadcast_message, one per confirmation of an admin.
BroadcastTasks == {"b1", "b2"}

\* Calls of BroadcastManager.cancel_broadcast.
CancelTasks == {"k1"}

\* current_broadcast when no broadcast is recorded (None).
NoBroadcast == 0

(***************************************************************************)
(* The catalog store: Database, the files collection                       *)
(***************************************************************************)

\* The documents find_one({"clean_title": clean_title}) may return.
get_file_by_clean_title(fs, clean_title) == {r \in fs : r.clean_title = clean_title}

\* The possible results of find_one: None ({}), or one matching document ({r}).
\* Which of several matching documents it returns is not specified.
find_one(matching) == IF matching = {} THEN {{}} ELSE {{r} : r \in matching}

\* insert_one violates the unique index on file_id (setup_indexes).
DuplicateKey(fs, file_id) == \E r \in fs : r.file_id = file_id

\* Database.add_file: the stored document (added_at, downloads are set here).
NewFile(file_data, t) ==
  [file_id |-> file_data.file_id, file_name |-> file_data.file_name,
   file_size |-> file_data.file_size, title |-> file_data.title,
   clean_title |-> file_data.clean_title, year |-> file_data.year,
   quality |-> file_data.quality, message_id |-> file_data.message_id,
   added_at |-> t, updated_at |-> NoTime, downloads |-> 0,
   last_downloaded |-> NoTime]

\* Database.add_file: the collection after the call.
add_file(fs, file_data, t) ==
  IF DuplicateKey(fs, file_data.file_id) THEN fs ELSE fs \cup {NewFile(file_data, t)}

\* Database.add_file: its return value.
add_file_ok(fs, file_data) == ~DuplicateKey(fs, file_data.file_id)

\* $set of an update_data that carries the year of the new file name as well.
SetFields_year(r, u) ==
  [r EXCEPT !.file_id = u.file_id, !.file_name = u.file_name,
            !.file_size = u.file_size, !.updated_at = u.updated_at,
            !.year = extract_year(u.file_name)]

\* An update that replaces the document: the download count starts again.
SetFields_downloads(r, u) ==
  [r EXCEPT !.file_id = u.file_id, !.file_name = u.file_name,
            !.file_size = u.file_size, !.updated_at = u.updated_at,
            !.downloads = 0]

\* $set of update_data on one document.
SetFields(r, u) ==
  [r EXCEPT !.file_id = u.file_id, !.file_name = u.file_name,
            !.file_size = u.file_size, !.updated_at = u.updated_at]

\* Database.update_file: update_one({"file_id": file_id}, {"$set": update_data}).
\* No document matches, or the new file_id is another document's: nothing changes.
update_file(fs, file_id, u) ==
  LET hit == {r \in fs : r.file_id = file_id}
  IN  IF hit = {} \/ DuplicateKey(fs \ hit, u.file_id) THEN fs
      ELSE (fs \ hit) \cup {SetFields(r, u) : r \in hit}

\* $inc of downloads with $set of added_at in place of last_downloaded.
increment_file_downloads_added(fs, file_id, t) ==
  {IF r.file_id = file_id
   THEN [r EXCEPT !.downloads = @ + 1, !.added_at = t]
   ELSE r : r \in fs}

\* Database.increment_file_downloads: update_one({"file_id": file_id},
\* {"$inc": {"downloads": 1}, "$set": {"last_downloaded": now}}).
increment_file_downloads(fs, file_id, t) ==
  {IF r.file_id = file_id
   THEN [r EXCEPT !.downloads = @ + 1, !.last_downloaded = t]
   ELSE r : r \in fs}

\* delete_file with a filter that matches no document.
delete_file_nothing(fs, file_id) == fs

\* Database.delete_file: delete_one({"file_id": file_id}).
delete_file(fs, file_id) == {r \in fs : r.file_id # file_id}

\* The $group stage of find_duplicates: one group per clean_title.
GroupByCleanTitle(fs) ==
  {{r \in fs : r.clean_title = ct} : ct \in {r.clean_title : r \in fs}}

\* find_duplicates with the threshold of $match off by one.
find_duplicates_gt2(fs) == {g \in GroupByCleanTitle(fs) : Cardinality(g) > 2}

\* Database.find_duplicates: the groups with count > 1.
find_duplicates(fs) == {g \in GroupByCleanTitle(fs) : Cardinality(g) > 1}

(***************************************************************************)
(* ChannelIndexer: pure parts                                              *)
(***************************************************************************)

\* process_message: the key it looks the catalog up with.
lookup_key(m) == movie_info[m.file_name].clean_title

\* process_message: file_data, the document it asks add_file to store.
file_data(m) ==
  LET clean_title == movie_info[m.file_name].clean_title
  IN  [file_id |-> m.file_id, file_name |-> m.file_name, file_size |-> m.file_size,
       title |-> clean_title, clean_title |-> Lower(clean_title),
       year |-> movie_info[m.file_name].year,
       quality |-> movie_info[m.file_name].quality, message_id |-> m.id]

\* process_message: update_data of the update_file call.
update_data(m, t) ==
  [file_id |-> m.file_id, file_name |-> m.file_name, file_size |-> m.file_size,
   updated_at |-> t]

\* The one element of a set of one element.
The(S) == CHOOSE r \in S : TRUE

\* process_message: what it does with the result of the lookup.
resolve(m, existing_file) ==
  IF existing_file # {}
  THEN IF m.file_size > The(existing_file).file_size THEN "update" ELSE "skip"
  ELSE "insert"

\* A loop that counts an update as indexed and, falling through, as an error too.
Count_updated_twice(stats, status) ==
  CASE status = "indexed"   -> [stats EXCEPT !.indexed_files = @ + 1]
    [] status = "duplicate" -> [stats EXCEPT !.duplicates = @ + 1]
    [] status = "skipped"   -> [stats EXCEPT !.skipped_files = @ + 1]
    [] status = "updated"   -> [stats EXCEPT !.indexed_files = @ + 1, !.errors = @ + 1]
    [] OTHER                -> [stats EXCEPT !.errors = @ + 1]

\* index_channel_history: the counter a result of process_message increments.
Count(stats, status) ==
  CASE status = "indexed"   -> [stats EXCEPT !.indexed_files = @ + 1]
    [] status = "duplicate" -> [stats EXCEPT !.duplicates = @ + 1]
    [] status = "skipped"   -> [stats EXCEPT !.skipped_files = @ + 1]
    [] OTHER                -> [stats EXCEPT !.errors = @ + 1]

\* The test of handle_new_file accepting an update as well.
ShouldNotify_updated(status) == status \in {"indexed", "updated"}

\* handle_new_file: whether a result of process_message is announced.
ShouldNotify(status) == status = "indexed"

\* The key of max() with the older of two files of one size ranked higher.
RankLeq_oldest(a, b) ==
  \/ a.file_size < b.file_size
  \/ a.file_size = b.file_size /\ a.added_at >= b.added_at

\* clean_database: key of max().
RankLeq(a, b) ==
  \/ a.file_size < b.file_size
  \/ a.file_size = b.file_size /\ a.added_at <= b.added_at

\* clean_database: the records of a group max() may return.
best_file(group) == {b \in group : \A r \in group : RankLeq(r, b)}

\* The file_ids of every record of the groups, the best file included.
ToDelete_whole(groups, keep) == {r.file_id : r \in UNION groups}

\* clean_database: the file_ids it deletes when keep holds the best file of each group.
ToDelete(groups, keep) ==
  UNION {{r.file_id : r \in {x \in g : x.file_id # The(keep \cap g).file_id}} : g \in groups}

\* The ways of choosing one best file in each group.
KeepChoices(groups) ==
  {keep \in SUBSET (UNION groups) :
     \A g \in groups : Cardinality(keep \cap g) = 1 /\ keep \cap g \subseteq best_file(g)}

(***************************************************************************)
(* State                                                                   *)
(***************************************************************************)

VARIABLES
  files,           \* the files collection: a set of documents
  now,             \* the clock datetime.now() reads
  update_channel,  \* Config.UPDATE_CHANNEL_ID (0: not configured)
  indexing,        \* ChannelIndexer.indexing of the admin's indexer
  sc,              \* per start request: the run of index_channel_history and its stats
  pm,              \* per indexing task: the call of process_message it is in
  mon,             \* per handler run: handle_new_file
  cl,              \* per call: clean_database
  serial,          \* history: no two catalog operations have overlapped so far
  offered,         \* history: per clean title, the largest file process_message accepted
  dl,              \* per callback: handle_file_callback
  ex,              \* a call of Utils.extract_movie_info: its argument and its result
  bm,              \* BroadcastManager: broadcasting and current_broadcast
  broadcasts,      \* the broadcast collection: the status of each record, by id
  bc,              \* per call: broadcast_message
  cc               \* per call: cancel_broadcast

vars ==
  <<files, now, update_channel, indexing, sc, pm, mon, cl, serial, offered, dl, ex,
    bm, broadcasts, bc, cc>>

\* The variables of the indexing pipeline, which BroadcastManager does not touch.
indexer_vars ==
  <<files, now, update_channel, indexing, sc, pm, mon, cl, serial, offered, dl, ex>>

\* stats of index_channel_history as the run starts; failed, documents and
\* subtitles are history fields: the messages of the run whose processing failed,
\* the documents it visited and the documents with a subtitle extension among them.
NewStats ==
  [pc |-> "loop", status |-> "none", total_messages |-> 0, indexed_files |-> 0,
   skipped_files |-> 0, duplicates |-> 0, errors |-> 0, end_time |-> NoTime,
   error_message |-> FALSE, failed |-> 0, documents |-> 0, subtitles |-> 0]

IdleScan == [NewStats EXCEPT !.pc = "idle"]

IdlePm == [pc |-> "idle", msg |-> NoMsg, existing |-> {}, op |-> "none"]

\* status is the result of process_message, sent counts the notifications of the
\* event, result is the value handle_new_file returned.
IdleMon == [pc |-> "idle", status |-> "none", sent |-> 0, result |-> FALSE]

\* The catalog keys of the subtitle files the channel may hold.
Keys == {file_data(m).clean_title :
           m \in {x \in Messages : x.document /\ subtitle_name[x.file_name]}}

\* dirty, quiet and titles are history fields of a cleaning pass: whether an
\* indexing task wrote to the catalog since the pass began, how many passes in a
\* row (0, 1, 2 or more) have returned with no such write since the first of them
\* began, and, while the pass deletes, the clean_titles the catalog held when it
\* began.
IdleClean ==
  [pc |-> "idle", todo |-> {}, removed_duplicates |-> 0, error |-> FALSE,
   dirty |-> FALSE, quiet |-> 0, titles |-> {}]

\* handle_file_callback when no callback is being handled.
IdleDl == [pc |-> "idle", file_id |-> 0]

\* BroadcastManager.__init__.
NewManager == [broadcasting |-> FALSE, current_broadcast |-> NoBroadcast]

\* broadcast_message before it is called; cancelled is a history field: a call of
\* cancel_broadcast returned True while this broadcast was in progress.
IdleBc ==
  [pc |-> "idle", broadcast_id |-> NoBroadcast, batches |-> 0, sent |-> 0,
   result |-> "none", cancelled |-> FALSE]

\* cancel_broadcast before it is called.
IdleCc == [pc |-> "idle", broadcast_id |-> NoBroadcast, result |-> FALSE]

\* No call of extract_movie_info is being followed.
IdleEx == [pc |-> "idle", filename |-> <<>>, info |-> extract_movie_info(<<>>)]

Init ==
  /\ files = {}
  /\ now = 0
  /\ update_channel \in {0, 1}
  /\ indexing = FALSE
  /\ sc = [t \in ScanTasks |-> IdleScan]
  /\ pm = [t \in Indexers |-> IdlePm]
  /\ mon = [t \in MonTasks |-> IdleMon]
  /\ cl = [c \in CleanTasks |-> IdleClean]
  /\ serial = TRUE
  /\ offered = [k \in Keys |-> 0]
  /\ dl = [d \in DlTasks |-> IdleDl]
  /\ ex = IdleEx
  /\ bm = NewManager
  /\ broadcasts = <<>>
  /\ bc = [b \in BroadcastTasks |-> IdleBc]
  /\ cc = [c \in CancelTasks |-> IdleCc]

\* Another task is between the first and the last store call of a catalog operation.
Busy(t) ==
  \/ \E u \in Indexers \ {t} : pm[u].pc # "idle"
  \/ \E c \in CleanTasks \ {t} : cl[c].pc = "deleting"

\* An indexing task wrote to the catalog: every cleaning pass is disturbed.
Disturbed == [c \in CleanTasks |-> [cl[c] EXCEPT !.dirty = TRUE, !.quiet = 0]]

\* The clock advances.
Tick ==
  /\ UNCHANGED <<dl, ex, bm, broadcasts, bc, cc>>
  /\ now < MaxTime
  /\ now' = now + 1
  /\ UNCHANGED <<files, update_channel, indexing, sc, pm, mon, cl, serial, offered>>

(***************************************************************************)
(* process_message and its two callers                                     *)
(***************************************************************************)

\* process_message returns status for message m to its caller, which runs on to its
\* next await: index_channel_history counts the result (lines 49-56) and sleeps;
\* handle_new_file announces an insert (send_new_file_notification returns at once
\* when no update channel is configured) or returns False.
Deliver(t, m, status) ==
  /\ pm' = [pm EXCEPT ![t] = IdlePm]
  /\ offered' = IF status \in {"indexed", "updated", "duplicate"}
                THEN [offered EXCEPT ![file_data(m).clean_title] =
                        IF m.file_size > @ THEN m.file_size ELSE @]
                ELSE offered
  /\ IF t \in ScanTasks
     THEN /\ sc' = [sc EXCEPT ![t] =
                      [Count(@, status) EXCEPT
                         !.failed = IF status = "error" THEN @ + 1 ELSE @]]
          /\ UNCHANGED mon
     ELSE /\ mon' = [mon EXCEPT ![t] =
                      IF ShouldNotify(status)
                      THEN IF update_channel = 0
                           THEN [@ EXCEPT !.pc = "idle", !.status = status, !.result = TRUE]
                           ELSE [@ EXCEPT !.pc = "notify", !.status = status]
                      ELSE [@ EXCEPT !.pc = "idle", !.status = status, !.result = FALSE]]
          /\ UNCHANGED sc

\* The test of the running flag answering that no run is in progress.
NeverRunning == FALSE

\* index_channel_history, line 25: the test of the running flag.
AlreadyRunning == indexing

\* index_channel_history, lines 25-29: start request t is made (handle_index_callback
\* creates one run_indexing task per request).
ScanStart(t) ==
  /\ UNCHANGED <<dl, ex, bm, broadcasts, bc, cc>>
  /\ sc[t].pc = "idle"
  /\ IF AlreadyRunning
     THEN /\ sc' = [sc EXCEPT ![t] = [IdleScan EXCEPT !.pc = "returned",
                                                      !.status = "already_running"]]
          /\ UNCHANGED indexing
     ELSE /\ indexing' = TRUE
          /\ sc' = [sc EXCEPT ![t] = NewStats]
  /\ UNCHANGED <<files, now, update_channel, pm, mon, cl, serial, offered>>

\* The loop calling process_message for every message: one without document comes
\* back as skipped and is counted.
ScanSkip_counts_message(t) ==
  /\ UNCHANGED <<dl, ex, bm, broadcasts, bc, cc>>
  /\ sc[t].pc = "loop" /\ pm[t].pc = "idle"
  /\ sc[t].total_messages < MaxHistory
  /\ \E m \in Messages :
       /\ ~(m.document /\ subtitle_name[m.file_name])
       /\ sc' = [sc EXCEPT ![t] = Count(Visit(@, m), "skipped")]
  /\ UNCHANGED <<files, now, update_channel, indexing, pm, mon, cl, serial, offered>>

\* index_channel_history, lines 42-56: the history yields a message that is not
\* passed to a store call (no document, or no subtitle).
ScanSkip(t) ==
  /\ UNCHANGED <<dl, ex, bm, broadcasts, bc, cc>>
  /\ sc[t].pc = "loop" /\ pm[t].pc = "idle"
  /\ sc[t].total_messages < MaxHistory
  /\ \E m \in Messages :
       /\ ~(m.document /\ subtitle_name[m.file_name])
       /\ sc' = [sc EXCEPT ![t] =
                   IF m.document THEN Count(Visit(@, m), "skipped") ELSE Visit(@, m)]
  /\ UNCHANGED <<files, now, update_channel, indexing, pm, mon, cl, serial, offered>>

\* index_channel_history, lines 42-47: the history yields a subtitle document and
\* process_message awaits the lookup.
ScanFetch(t) ==
  /\ UNCHANGED <<dl, ex, bm, broadcasts, bc, cc>>
  /\ sc[t].pc = "loop" /\ pm[t].pc = "idle"
  /\ sc[t].total_messages < MaxHistory
  /\ \E m \in Messages :
       /\ m.document /\ subtitle_name[m.file_name]
       /\ pm' = [pm EXCEPT ![t] = [IdlePm EXCEPT !.pc = "read", !.msg = m]]
       /\ sc' = [sc EXCEPT ![t] = Visit(@, m)]
  /\ serial' = (serial /\ ~Busy(t))
  /\ UNCHANGED <<files, now, update_channel, indexing, mon, cl, offered>>

\* index_channel_history, lines 66-80: the history is exhausted.
ScanComplete(t) ==
  /\ UNCHANGED <<dl, ex, bm, broadcasts, bc, cc>>
  /\ sc[t].pc = "loop" /\ pm[t].pc = "idle"
  /\ sc' = [sc EXCEPT ![t] = [@ EXCEPT !.pc = "returned", !.status = "completed",
                                        !.end_time = now]]
  /\ indexing' = FALSE
  /\ UNCHANGED <<files, now, update_channel, pm, mon, cl, serial, offered>>

\* handle_new_document / handle_new_file: a document is posted to the source channel.
MonEvent(t) ==
  /\ UNCHANGED <<dl, ex, bm, broadcasts, bc, cc>>
  /\ mon[t].pc = "idle" /\ pm[t].pc = "idle"
  /\ \E m \in Messages :
       /\ m.document
       /\ IF subtitle_name[m.file_name]
          THEN /\ pm' = [pm EXCEPT ![t] = [IdlePm EXCEPT !.pc = "read", !.msg = m]]
               /\ mon' = [mon EXCEPT ![t] = [IdleMon EXCEPT !.pc = "processing"]]
               /\ serial' = (serial /\ ~Busy(t))
          ELSE /\ mon' = [mon EXCEPT ![t] = [IdleMon EXCEPT !.status = "skipped"]]
               /\ UNCHANGED <<pm, serial>>
  /\ UNCHANGED <<files, now, update_channel, indexing, sc, cl, offered>>

\* process_message, lines 105-120: the lookup returns; a duplicate is reported at
\* once, an update or an insert awaits its store call.
PMRead(t) ==
  /\ UNCHANGED <<dl, ex, bm, broadcasts, bc, cc>>
  /\ pm[t].pc = "read"
  /\ LET m == pm[t].msg
     IN  \E existing_file \in find_one(get_file_by_clean_title(files, lookup_key(m))) :
           LET op == resolve(m, existing_file)
           IN  IF op = "skip"
               THEN Deliver(t, m, "duplicate")
               ELSE /\ pm' = [pm EXCEPT ![t] = [pc |-> "write", msg |-> m,
                                               existing |-> existing_file, op |-> op]]
                    /\ UNCHANGED <<sc, mon, offered>>
  /\ UNCHANGED <<files, now, update_channel, indexing, cl, serial>>

\* process_message, lines 111-118 and 138-144: update_file or add_file takes effect
\* and process_message returns.
PMWrite(t) ==
  /\ UNCHANGED <<dl, ex, bm, broadcasts, bc, cc>>
  /\ pm[t].pc = "write"
  /\ LET m == pm[t].msg
         e == pm[t].existing
     IN  IF pm[t].op = "update"
         THEN /\ files' = update_file(files, The(e).file_id, update_data(m, now))
              /\ Deliver(t, m, "updated")
         ELSE /\ files' = add_file(files, file_data(m), now)
              /\ Deliver(t, m, IF add_file_ok(files, file_data(m)) THEN "indexed" ELSE "error")
  /\ cl' = Disturbed
  /\ UNCHANGED <<now, update_channel, indexing, serial>>

\* send_new_file_notification, lines 195-198: send_message returns.
MonNotify(t) ==
  /\ UNCHANGED <<dl, ex, bm, broadcasts, bc, cc>>
  /\ mon[t].pc = "notify"
  /\ mon' = [mon EXCEPT ![t] = [@ EXCEPT !.pc = "idle", !.sent = @ + 1, !.result = TRUE]]
  /\ UNCHANGED <<files, now, update_channel, indexing, sc, pm, cl, serial, offered>>

(***************************************************************************)
(* clean_database                                                          *)
(***************************************************************************)

\* A pass returns: the history fields of the pass are closed.
Returned(rec) ==
  [rec EXCEPT !.pc = "done", !.titles = {},
              !.quiet = IF rec.dirty THEN 0 ELSE IF rec.quiet < 2 THEN rec.quiet + 1 ELSE 2]

\* clean_database, lines 280-289: find_duplicates returns and the best file of each
\* group is chosen; with no duplicate group the pass returns at once.
CleanStart(c) ==
  /\ UNCHANGED <<dl, ex, bm, broadcasts, bc, cc>>
  /\ cl[c].pc \in {"idle", "done"}
  /\ LET groups == find_duplicates(files)
     IN  \E keep \in KeepChoices(groups) :
           LET rec == [cl[c] EXCEPT !.pc = "deleting", !.todo = ToDelete(groups, keep),
                                    !.removed_duplicates = 0, !.error = FALSE,
                                    !.dirty = FALSE,
                                    !.titles = {r.clean_title : r \in files}]
           IN  cl' = [cl EXCEPT ![c] = IF rec.todo = {} THEN Returned(rec) ELSE rec]
  /\ serial' = (serial /\ ~Busy(c))
  /\ UNCHANGED <<files, now, update_channel, indexing, sc, pm, mon, offered>>

\* clean_database, lines 292-295: one delete_file call takes effect and is counted;
\* after the last one the pass returns.
CleanDelete(c) ==
  /\ UNCHANGED <<dl, ex, bm, broadcasts, bc, cc>>
  /\ cl[c].pc = "deleting"
  /\ \E file_id \in cl[c].todo :
       /\ files' = delete_file(files, file_id)
       /\ LET rec == [cl[c] EXCEPT !.todo = @ \ {file_id},
                                   !.removed_duplicates = @ + 1]
          IN  cl' = [cl EXCEPT ![c] = IF rec.todo = {} THEN Returned(rec) ELSE rec]
  /\ UNCHANGED <<now, update_channel, indexing, sc, pm, mon, serial, offered>>

(***************************************************************************)
(* handle_file_callback                                                    *)
(***************************************************************************)

\* handle_file_callback, lines 136-140: a user asks for a file of the catalog and
\* get_file returns its record (for a file_id without record it answers "not found" and
\* returns, which changes nothing).
DlStart(d) ==
  /\ dl[d].pc = "idle"
  /\ \A r \in files : r.downloads < MaxDownloads
  /\ \E r \in files : dl' = [dl EXCEPT ![d] = [pc |-> "send", file_id |-> r.file_id]]
  /\ UNCHANGED <<files, now, update_channel, indexing, sc, pm, mon, cl, serial, offered, ex, bm, broadcasts, bc, cc>>

\* handle_file_callback, lines 145-148: reply_document returns, the document is
\* delivered.
DlSend(d) ==
  /\ dl[d].pc = "send"
  /\ dl' = [dl EXCEPT ![d].pc = "count"]
  /\ UNCHANGED <<files, now, update_channel, indexing, sc, pm, mon, cl, serial, offered, ex, bm, broadcasts, bc, cc>>

\* handle_file_callback, lines 160-162: reply_document raises.
DlSendFail(d) ==
  /\ dl[d].pc = "send"
  /\ dl' = [dl EXCEPT ![d] = IdleDl]
  /\ UNCHANGED <<files, now, update_channel, indexing, sc, pm, mon, cl, serial, offered, ex, bm, broadcasts, bc, cc>>

\* handle_file_callback, line 151: increment_file_downloads takes effect.
DlCount(d) ==
  /\ dl[d].pc = "count"
  /\ files' = increment_file_downloads(files, dl[d].file_id, now)
  /\ dl' = [dl EXCEPT ![d] = IdleDl]
  /\ UNCHANGED <<now, update_channel, indexing, sc, pm, mon, cl, serial, offered, ex, bm, broadcasts, bc, cc>>

\* Database.increment_file_downloads, lines 190-192: update_one raises.
DlCountFail(d) ==
  /\ dl[d].pc = "count"
  /\ dl' = [dl EXCEPT ![d] = IdleDl]
  /\ UNCHANGED <<files, now, update_channel, indexing, sc, pm, mon, cl, serial, offered, ex, bm, broadcasts, bc, cc>>

(***************************************************************************)
(* Utils.extract_movie_info                                                *)
(***************************************************************************)

\* The state in which extract_movie_info is about to be called with filename.
Called(filename) == [IdleEx EXCEPT !.pc = "called", !.filename = filename]

\* Utils.extract_movie_info, lines 146-152: the call returns info.
Extract ==
  /\ ex.pc = "called"
  /\ ex' = [ex EXCEPT !.pc = "returned", !.info = extract_movie_info(ex.filename)]
  /\ UNCHANGED <<files, now, update_channel, indexing, sc, pm, mon, cl, serial, offered, dl, bm, broadcasts, bc, cc>>

(***************************************************************************)
(* BroadcastManager                                                        *)
(***************************************************************************)

\* The position of broadcast_message after total_users is recorded, and after a
\* batch: the for loop of lines 97-130 while batches remain, else the final
\* update of the record.
AfterBatch(rec) ==
  [rec EXCEPT !.pc = IF rec.sent < rec.batches THEN "loop" ELSE "final"]

\* start_broadcast, lines 30-48, called by broadcast_message (line 61): with the
\* flag set it returns None and broadcast_message returns the error result
\* (lines 63-64); else it sets the flag and awaits save_broadcast.
BcStart(b) ==
  /\ bc[b].pc = "idle"
  /\ IF bm.broadcasting
     THEN /\ bc' = [bc EXCEPT ![b] = [@ EXCEPT !.pc = "returned", !.result = "error"]]
          /\ UNCHANGED bm
     ELSE /\ bm' = [bm EXCEPT !.broadcasting = TRUE]
          /\ bc' = [bc EXCEPT ![b] = [@ EXCEPT !.pc = "save"]]
  /\ UNCHANGED <<broadcasts, cc>>
  /\ UNCHANGED indexer_vars

\* save_broadcast inserts the record and returns its id; start_broadcast keeps it
\* as current_broadcast (lines 48-51) and broadcast_message awaits get_all_users.
BcSaved(b) ==
  /\ bc[b].pc = "save"
  /\ broadcasts' = Append(broadcasts, "in_progress")
  /\ bm' = [bm EXCEPT !.current_broadcast = Len(broadcasts) + 1]
  /\ bc' = [bc EXCEPT ![b] = [@ EXCEPT !.pc = "users", !.broadcast_id = Len(broadcasts) + 1]]
  /\ UNCHANGED cc
  /\ UNCHANGED indexer_vars

\* broadcast_message, lines 67-91: get_all_users returns the users, in some number
\* of batches; it awaits the update of total_users.
BcUsers(b) ==
  /\ bc[b].pc = "users"
  /\ \E n \in 0..MaxBatches :
       bc' = [bc EXCEPT ![b] = [@ EXCEPT !.pc = "total", !.batches = n]]
  /\ UNCHANGED <<bm, broadcasts, cc>>
  /\ UNCHANGED indexer_vars

\* broadcast_message, lines 81-97: update_broadcast_stats has returned (it changes
\* no status) and the progress message is edited; the loop is entered.
BcTotal(b) ==
  /\ bc[b].pc = "total"
  /\ bc' = [bc EXCEPT ![b] = AfterBatch(@)]
  /\ UNCHANGED <<bm, broadcasts, cc>>
  /\ UNCHANGED indexer_vars

\* broadcast_message, lines 97-130: one batch is sent (gather returns the results
\* of send_broadcast_message, exceptions included) and counted.
BcBatch(b) ==
  /\ bc[b].pc = "loop"
  /\ bc' = [bc EXCEPT ![b] = AfterBatch([@ EXCEPT !.sent = @ + 1])]
  /\ UNCHANGED <<bm, broadcasts, cc>>
  /\ UNCHANGED indexer_vars

\* broadcast_message, lines 137-152: the record is set to completed and the final
\* report is edited.
BcFinal(b) ==
  /\ bc[b].pc = "final"
  /\ broadcasts' = [broadcasts EXCEPT ![bc[b].broadcast_id] = "completed"]
  /\ bc' = [bc EXCEPT ![b] = [@ EXCEPT !.pc = "report"]]
  /\ UNCHANGED <<bm, cc>>
  /\ UNCHANGED indexer_vars

\* broadcast_message, lines 154-159: the flag is cleared and stats returned.
BcReturn(b) ==
  /\ bc[b].pc = "report"
  /\ bm' = NewManager
  /\ bc' = [bc EXCEPT ![b] = [@ EXCEPT !.pc = "returned", !.result = "stats"]]
  /\ UNCHANGED <<broadcasts, cc>>
  /\ UNCHANGED indexer_vars

\* save_broadcast, lines 364-366: insert_one raises and save_broadcast returns
\* None; start_broadcast stores it in current_broadcast and returns it, and
\* broadcast_message returns the error result (lines 63-64).
BcSaveFail(b) ==
  /\ bc[b].pc = "save"
  /\ bm' = [bm EXCEPT !.current_broadcast = NoBroadcast]
  /\ bc' = [bc EXCEPT ![b] = [@ EXCEPT !.pc = "returned", !.result = "error"]]
  /\ UNCHANGED <<broadcasts, cc>>
  /\ UNCHANGED indexer_vars

\* get_all_users (database.py:114-116) raises: no handler of broadcast_message
\* catches it and the exception leaves the call.
BcUsersFail(b) ==
  /\ bc[b].pc = "users"
  /\ bc' = [bc EXCEPT ![b] = [@ EXCEPT !.pc = "raised"]]
  /\ UNCHANGED <<bm, broadcasts, cc>>
  /\ UNCHANGED indexer_vars

\* The calls of broadcast_message between start_broadcast and their return.
InProgress == {b \in BroadcastTasks : bc[b].pc \in {"save", "users", "total", "loop", "final", "report"}}

\* cancel_broadcast returns True: the flag and current_broadcast are cleared
\* (lines 349-353).
Cancelled(c) ==
  /\ bm' = NewManager
  /\ cc' = [cc EXCEPT ![c] = [@ EXCEPT !.pc = "returned", !.result = TRUE]]
  /\ bc' = [b \in BroadcastTasks |->
              IF b \in InProgress THEN [bc[b] EXCEPT !.cancelled = TRUE] ELSE bc[b]]

\* cancel_broadcast, lines 339-347: with the flag clear it returns False; with a
\* current broadcast it awaits the update of the record; else it clears the flag.
CancelStart(c) ==
  /\ cc[c].pc = "idle"
  /\ IF ~bm.broadcasting
     THEN /\ cc' = [cc EXCEPT ![c] = [@ EXCEPT !.pc = "returned", !.result = FALSE]]
          /\ UNCHANGED <<bm, bc>>
     ELSE IF bm.current_broadcast # NoBroadcast
     THEN /\ cc' = [cc EXCEPT ![c] = [@ EXCEPT !.pc = "update",
                                               !.broadcast_id = bm.current_broadcast]]
          /\ UNCHANGED <<bm, bc>>
     ELSE Cancelled(c)
  /\ UNCHANGED broadcasts
  /\ UNCHANGED indexer_vars

\* cancel_broadcast, lines 344-353: the record is set to cancelled and the call
\* returns True.
CancelUpdate(c) ==
  /\ cc[c].pc = "update"
  /\ broadcasts' = [broadcasts EXCEPT ![cc[c].broadcast_id] = "cancelled"]
  /\ Cancelled(c)
  /\ UNCHANGED indexer_vars

\* update_broadcast_stats (database.py:377-379) catches the failure of update_one
\* and returns False; cancel_broadcast goes on and returns True.
CancelUpdateFail(c) ==
  /\ cc[c].pc = "update"
  /\ Cancelled(c)
  /\ UNCHANGED broadcasts
  /\ UNCHANGED indexer_vars

(***************************************************************************)
(* Failures of the chat platform and of the store                          *)
(***************************************************************************)

\* ScanIterFail without the finally clause: the running flag stays set.
ScanIterFail_keeps_flag(t) ==
  /\ UNCHANGED <<dl, ex, bm, broadcasts, bc, cc>>
  /\ sc[t].pc = "loop" /\ pm[t].pc = "idle"
  /\ sc' = [sc EXCEPT ![t] = [@ EXCEPT !.pc = "returned", !.status = "error",
                                        !.error_message = TRUE]]
  /\ UNCHANGED <<files, now, update_channel, indexing, pm, mon, cl, serial, offered>>

\* index_channel_history, lines 72-80: iterating the history raises.
ScanIterFail(t) ==
  /\ UNCHANGED <<dl, ex, bm, broadcasts, bc, cc>>
  /\ sc[t].pc = "loop" /\ pm[t].pc = "idle"
  /\ sc' = [sc EXCEPT ![t] = [@ EXCEPT !.pc = "returned", !.status = "error",
                                        !.error_message = TRUE]]
  /\ indexing' = FALSE
  /\ UNCHANGED <<files, now, update_channel, pm, mon, cl, serial, offered>>

\* process_message without its except clause: the exception of the lookup leaves
\* process_message.
PMReadFail_raises(t) ==
  /\ UNCHANGED <<dl, ex, bm, broadcasts, bc, cc>>
  /\ pm[t].pc = "read"
  /\ pm' = [pm EXCEPT ![t].pc = "raised"]
  /\ UNCHANGED <<files, now, update_channel, indexing, sc, mon, cl, serial, offered>>

\* process_message, lines 146-148: get_file_by_clean_title raises.
PMReadFail(t) ==
  /\ UNCHANGED <<dl, ex, bm, broadcasts, bc, cc>>
  /\ pm[t].pc = "read"
  /\ Deliver(t, pm[t].msg, "error")
  /\ UNCHANGED <<files, now, update_channel, indexing, cl, serial>>

\* The store call of update_file or add_file raises: Database catches it and
\* returns False, which process_message ignores for an update (line 118) and
\* reports as an error for an insert (line 144).
PMWriteFail(t) ==
  /\ UNCHANGED <<dl, ex, bm, broadcasts, bc, cc>>
  /\ pm[t].pc = "write"
  /\ Deliver(t, pm[t].msg, IF pm[t].op = "update" THEN "updated" ELSE "error")
  /\ UNCHANGED <<files, now, update_channel, indexing, cl, serial>>

\* send_new_file_notification, lines 202-203: send_message raises.
MonNotifyFail(t) ==
  /\ UNCHANGED <<dl, ex, bm, broadcasts, bc, cc>>
  /\ mon[t].pc = "notify"
  /\ mon' = [mon EXCEPT ![t] = [@ EXCEPT !.pc = "idle", !.result = TRUE]]
  /\ UNCHANGED <<files, now, update_channel, indexing, sc, pm, cl, serial, offered>>

\* Database.delete_file, lines 200-201: delete_one raises, delete_file returns
\* False and clean_database counts the file as removed.
CleanDeleteFail(c) ==
  /\ UNCHANGED <<dl, ex, bm, broadcasts, bc, cc>>
  /\ cl[c].pc = "deleting"
  /\ \E file_id \in cl[c].todo :
       LET rec == [cl[c] EXCEPT !.todo = @ \ {file_id}, !.removed_duplicates = @ + 1]
       IN  cl' = [cl EXCEPT ![c] = IF rec.todo = {} THEN Returned(rec) ELSE rec]
  /\ UNCHANGED <<files, now, update_channel, indexing, sc, pm, mon, serial, offered>>

\* clean_database, lines 299-303: find_duplicates raises.
CleanFindFail(c) ==
  /\ UNCHANGED <<dl, ex, bm, broadcasts, bc, cc>>
  /\ cl[c].pc \in {"idle", "done"}
  /\ cl' = [cl EXCEPT ![c] =
              Returned([@ EXCEPT !.todo = {}, !.removed_duplicates = 0,
                                 !.error = TRUE, !.dirty = FALSE])]
  /\ serial' = (serial /\ ~Busy(c))
  /\ UNCHANGED <<files, now, update_channel, indexing, sc, pm, mon, offered>>

(***************************************************************************)
(* Specifications                                                          *)
(*                                                                         *)
(* The three units of work are composed per question, so that each         *)
(* composition can be explored exhaustively.  No guard reads the clock, so *)
(* the compositions whose properties do not read a timestamp leave Tick    *)
(* out.                                                                    *)
(***************************************************************************)

\* The Live Monitor and the Batch Cleaner on the catalog; every call is answered.
NextCatalog ==
  \/ Tick
  \/ \E t \in MonTasks : MonEvent(t)
  \/ \E t \in MonTasks : PMRead(t)
  \/ \E t \in MonTasks : PMWrite(t)
  \/ \E t \in MonTasks : MonNotify(t)
  \/ \E c \in SoloCleanTasks : CleanStart(c)
  \/ \E c \in SoloCleanTasks : CleanDelete(c)

SpecCatalog == Init /\ [][NextCatalog]_vars

\* The Live Monitor alone; calls of the store and of the chat platform may raise.
NextMonitor ==
  \/ Tick
  \/ \E t \in MonTasks : MonEvent(t)
  \/ \E t \in MonTasks : PMRead(t)
  \/ \E t \in MonTasks : PMWrite(t)
  \/ \E t \in MonTasks : MonNotify(t)
  \/ \E t \in MonTasks : PMReadFail(t)
  \/ \E t \in MonTasks : PMWriteFail(t)
  \/ \E t \in MonTasks : MonNotifyFail(t)

SpecMonitor == Init /\ [][NextMonitor]_vars

\* The start requests of the History Scanner; the history and the store may raise.
NextScan ==
  \/ \E t \in ScanTasks : ScanStart(t)
  \/ \E t \in ScanTasks : ScanSkip(t)
  \/ \E t \in ScanTasks : ScanFetch(t)
  \/ \E t \in ScanTasks : ScanComplete(t)
  \/ \E t \in ScanTasks : PMRead(t)
  \/ \E t \in ScanTasks : PMWrite(t)
  \/ \E t \in ScanTasks : ScanIterFail(t)
  \/ \E t \in ScanTasks : PMReadFail(t)
  \/ \E t \in ScanTasks : PMWriteFail(t)

SpecScan == Init /\ [][NextScan]_vars

\* The start request that runs beside the Live Monitor in SpecRace.
RaceScanTasks == {"s1"}

\* One run of the History Scanner beside the Live Monitor; every call is answered.
NextRace ==
  \/ \E t \in RaceScanTasks : ScanStart(t)
  \/ \E t \in RaceScanTasks : ScanSkip(t)
  \/ \E t \in RaceScanTasks : ScanFetch(t)
  \/ \E t \in RaceScanTasks : ScanComplete(t)
  \/ \E t \in MonTasks : MonEvent(t)
  \/ \E t \in Indexers : PMRead(t)
  \/ \E t \in Indexers : PMWrite(t)
  \/ \E t \in MonTasks : MonNotify(t)

SpecRace == Init /\ [][NextRace]_vars

\* The subtitle documents of the source channel in SpecFaults and SpecDownload: a
\* title, a larger version of it, and the same title in upper case.
SmallChannel == {m \in Messages : m.id \in {1, 2, 4}}

\* No operation other than t's is in progress.
Exclusive(t) ==
  /\ ~Busy(t)
  /\ \A u \in ScanTasks \ {t} : sc[u].pc # "loop"
  /\ \A u \in MonTasks \ {t} : mon[u].pc = "idle"
  /\ \A u \in DlTasks \ {t} : dl[u].pc = "idle"

\* One run of the History Scanner, the Live Monitor and the Batch Cleaner, each
\* operation started when no other is in progress; every call of the store and of
\* the chat platform may raise.  The subtitle documents are those of SmallChannel.
NextFaults ==
  \/ \E t \in RaceScanTasks : Exclusive(t) /\ ScanStart(t)
  \/ \E t \in RaceScanTasks : ScanSkip(t)
  \/ \E t \in RaceScanTasks : ScanFetch(t) /\ pm'[t].msg \in SmallChannel
  \/ \E t \in RaceScanTasks : ScanComplete(t)
  \/ \E t \in RaceScanTasks : ScanIterFail(t)
  \/ \E t \in MonTasks : Exclusive(t) /\ MonEvent(t) /\ pm'[t].msg \in SmallChannel
  \/ \E t \in RaceScanTasks \cup MonTasks : PMRead(t)
  \/ \E t \in RaceScanTasks \cup MonTasks : PMWrite(t)
  \/ \E t \in RaceScanTasks \cup MonTasks : PMReadFail(t)
  \/ \E t \in RaceScanTasks \cup MonTasks : PMWriteFail(t)
  \/ \E t \in MonTasks : MonNotify(t)
  \/ \E t \in MonTasks : MonNotifyFail(t)
  \/ \E c \in SoloCleanTasks : Exclusive(c) /\ CleanStart(c)
  \/ \E c \in SoloCleanTasks : CleanDelete(c)
  \/ \E c \in SoloCleanTasks : CleanDeleteFail(c)
  \/ \E c \in SoloCleanTasks : Exclusive(c) /\ CleanFindFail(c)

SpecFaults == Init /\ [][NextFaults]_vars

\* The Live Monitor, the Batch Cleaner and the downloads of users on the catalog;
\* every store call is answered except where a Fail action says otherwise.
NextDownload ==
  \/ Tick
  \/ \E t \in MonTasks : MonEvent(t) /\ pm'[t].msg \in SmallChannel
  \/ \E t \in MonTasks : PMRead(t)
  \/ \E t \in MonTasks : PMWrite(t)
  \/ \E t \in MonTasks : MonNotify(t)
  \/ \E c \in SoloCleanTasks : CleanStart(c)
  \/ \E c \in SoloCleanTasks : CleanDelete(c)
  \/ \E d \in DlTasks : DlStart(d)
  \/ \E d \in DlTasks : DlSend(d)
  \/ \E d \in DlTasks : DlSendFail(d)
  \/ \E d \in DlTasks : DlCount(d)
  \/ \E d \in DlTasks : DlCountFail(d)

SpecDownload == Init /\ [][NextDownload]_vars

\* extract_movie_info on its own, called with each of Filenames.
InitExtract ==
  /\ files = {}
  /\ now = 0
  /\ update_channel = 0
  /\ indexing = FALSE
  /\ sc = [t \in ScanTasks |-> IdleScan]
  /\ pm = [t \in Indexers |-> IdlePm]
  /\ mon = [t \in MonTasks |-> IdleMon]
  /\ cl = [c \in CleanTasks |-> IdleClean]
  /\ serial = TRUE
  /\ offered = [k \in Keys |-> 0]
  /\ dl = [d \in DlTasks |-> IdleDl]
  /\ ex \in {Called(filename) : filename \in Filenames}
  /\ bm = NewManager
  /\ broadcasts = <<>>
  /\ bc = [b \in BroadcastTasks |-> IdleBc]
  /\ cc = [c \in CancelTasks |-> IdleCc]

NextExtract == Extract

SpecExtract == InitExtract /\ [][NextExtract]_vars

\* Two concurrent passes of the Batch Cleaner beside the Live Monitor, on the
\* documents of SmallChannel; every call is answered.
NextCleaners ==
  \/ \E t \in MonTasks : MonEvent(t) /\ pm'[t].msg \in SmallChannel
  \/ \E t \in MonTasks : PMRead(t)
  \/ \E t \in MonTasks : PMWrite(t)
  \/ \E t \in MonTasks : MonNotify(t)
  \/ \E c \in CleanTasks : CleanStart(c)
  \/ \E c \in CleanTasks : CleanDelete(c)

SpecCleaners == Init /\ [][NextCleaners]_vars

\* The calls of BroadcastManager; save_broadcast, get_all_users and the update of
\* a cancelled record may fail.
NextBroadcast ==
  \/ \E b \in BroadcastTasks : BcStart(b)
  \/ \E b \in BroadcastTasks : BcSaved(b)
  \/ \E b \in BroadcastTasks : BcUsers(b)
  \/ \E b \in BroadcastTasks : BcTotal(b)
  \/ \E b \in BroadcastTasks : BcBatch(b)
  \/ \E b \in BroadcastTasks : BcFinal(b)
  \/ \E b \in BroadcastTasks : BcReturn(b)
  \/ \E b \in BroadcastTasks : BcSaveFail(b)
  \/ \E b \in BroadcastTasks : BcUsersFail(b)
  \/ \E c \in CancelTasks : CancelStart(c)
  \/ \E c \in CancelTasks : CancelUpdate(c)
  \/ \E c \in CancelTasks : CancelUpdateFail(c)

SpecBroadcast == Init /\ [][NextBroadcast]_vars

(***************************************************************************)
(* Properties                                                              *)
(***************************************************************************)

\* No two records of the catalog share a clean_title.
UniqueCleanTitles(fs) ==
  \A a \in fs : \A b \in fs : a.clean_title = b.clean_title => a = b

C2_SerialNoDuplicates == serial => UniqueCleanTitles(files)

\* The decision process_message takes in a step in which its lookup returns.
Decision(t) == IF pm'[t].pc = "write" THEN pm'[t].op ELSE "skip"

\* C3: when the lookup of process_message returns, the decision is insert if no
\* record has the candidate's clean_title, update if the record found is strictly
\* smaller than the candidate, and skip otherwise.
C3_ResolverPolicy ==
  [][\A t \in Indexers :
       (pm[t].pc = "read" /\ pm'[t].pc # "read") =>
         LET m == pm[t].msg
             same == {r \in files : r.clean_title = file_data(m).clean_title}
         IN  /\ same = {} => Decision(t) = "insert"
             /\ same # {} =>
                  \E r \in same :
                    Decision(t) = IF r.file_size < m.file_size THEN "update" ELSE "skip"
    ]_vars

Looping == {t \in ScanTasks : sc[t].pc = "loop"}

\* C4: at most one scan loop executes at any time, and a start request made while
\* a run is in its loop returns already_running with no message scanned, the
\* catalog unchanged and the running flag of the run in progress still set.
C4_SingleScanLoop ==
  /\ [](Cardinality(Looping) <= 1)
  /\ [][\A t \in ScanTasks :
          (sc[t].pc = "idle" /\ sc'[t].pc # "idle" /\ Looping # {}) =>
            /\ sc'[t].pc = "returned" /\ sc'[t].status = "already_running"
            /\ sc'[t].total_messages = 0
            /\ files' = files /\ pm' = pm
            /\ indexing /\ indexing'
            /\ Looping' = Looping
       ]_vars

\* A start request was rejected while the run in progress had scanned a message.
C4_Witness ==
  \E t \in ScanTasks : \E u \in ScanTasks :
    /\ sc[t].status = "already_running"
    /\ sc[u].pc = "loop" /\ sc[u].total_messages > 0

\* C5: once the History Scanner and the Live Monitor have both finished, the
\* catalog holds for each clean_title a record at least as large as the largest
\* file that was offered for it.
C5_NoLostUpdate ==
  (\A t \in Indexers : pm[t].pc = "idle") =>
    \A k \in Keys :
      offered[k] > 0 => \E r \in files : r.clean_title = k /\ r.file_size >= offered[k]

\* C7: a completed run reports as errors exactly the messages whose processing
\* failed.
C7_ErrorsCountFailures ==
  \A t \in ScanTasks : sc[t].status = "completed" => sc[t].errors = sc[t].failed

\* C8: a run ended by a failure of the history iteration returns a record with
\* its end time set and the error message recorded.
C8_FailedRunRecord ==
  \A t \in ScanTasks :
    (sc[t].pc = "returned" /\ sc[t].status = "error") =>
      sc[t].end_time # NoTime /\ sc[t].error_message

\* C9: the running flag is clear whenever no run is in its loop, so a start
\* request made after a run has ended, completed or failed, is accepted.
C9_FlagCleared ==
  /\ [](Looping = {} => ~indexing)
  /\ [][\A t \in ScanTasks :
          (sc[t].pc = "idle" /\ sc'[t].pc # "idle" /\ Looping = {}) =>
            sc'[t].pc = "loop" /\ indexing'
       ]_vars

\* A start request was accepted after an earlier run had failed.
C9_Witness ==
  \E t \in ScanTasks : \E u \in ScanTasks :
    sc[t].pc = "returned" /\ sc[t].status = "error" /\ sc[u].pc = "loop"

\* C10: for one event the Live Monitor sends at most one notification, and it
\* sends or is about to send one only if process_message reported an insert.
C10_NotifyOnInsertOnly ==
  \A t \in MonTasks :
    /\ mon[t].sent <= 1
    /\ (mon[t].sent = 1 \/ mon[t].pc = "notify") => mon[t].status = "indexed"

\* A notification was sent for an inserted file.
C10_Witness ==
  \E t \in MonTasks :
    mon[t].pc = "idle" /\ mon[t].sent = 1 /\ mon[t].status = "indexed"

\* b has the greatest (file_size, added_at) pair of group g.
Greatest(b, g) ==
  \A r \in g : \/ r.file_size < b.file_size
               \/ r.file_size = b.file_size /\ r.added_at <= b.added_at

C12_CountersFollowAction ==
  [][\A t \in ScanTasks :
       /\ (pm[t].pc = "write" /\ pm'[t].pc = "idle" /\ pm[t].op = "update") =>
            /\ sc'[t].indexed_files = sc[t].indexed_files + 1
            /\ sc'[t].errors = sc[t].errors
       /\ (pm[t].pc = "write" /\ pm'[t].pc = "idle" /\ pm[t].op = "insert"
             /\ files' # files) =>
            sc'[t].indexed_files = sc[t].indexed_files + 1
       /\ (pm[t].pc = "read" /\ pm'[t].pc = "idle" /\ sc'[t].failed = sc[t].failed) =>
            sc'[t].duplicates = sc[t].duplicates + 1
    ]_vars

\* r2 is r with the file reference, name and size of message m and updated_at t,
\* and every other field as in r.
Replaced(r, r2, m, t) ==
  /\ r2.file_id = m.file_id /\ r2.file_name = m.file_name
  /\ r2.file_size = m.file_size /\ r2.updated_at = t
  /\ r2.title = r.title /\ r2.clean_title = r.clean_title
  /\ r2.year = r.year /\ r2.quality = r.quality
  /\ r2.message_id = r.message_id /\ r2.downloads = r.downloads
  /\ r2.added_at = r.added_at

\* C13: the update_file call of a resolver update changes, in the record that has
\* the file_id of the record found, exactly file_id, file_name, file_size and
\* updated_at, and changes no other record and not the number of records (when
\* no record has that file_id any more, or the new file_id is another record's,
\* the store changes nothing).
C13_UpdateFrame ==
  [][\A t \in Indexers :
       (pm[t].pc = "write" /\ pm[t].op = "update" /\ pm'[t].pc = "idle") =>
         LET m   == pm[t].msg
             hit == {r \in files : r.file_id = The(pm[t].existing).file_id}
         IN  IF hit = {} \/ \E r \in files \ hit : r.file_id = m.file_id
             THEN files' = files
             ELSE /\ Cardinality(files') = Cardinality(files)
                  /\ \E r \in hit : \E r2 \in files' :
                       /\ files' \ {r2} = files \ {r}
                       /\ Replaced(r, r2, m, now)
    ]_vars

\* A record was updated after the clock advanced, beside another record: it holds
\* the new file and still the year, message reference and added_at it was
\* inserted with.
C13_Witness ==
  /\ Cardinality(files) >= 2
  /\ \E r \in files :
       /\ r.updated_at = 1 /\ r.added_at = 0
       /\ r.message_id = 2 /\ r.file_id = 3 /\ r.year = 2099

\* C14: when the lookup of process_message returns and every record with the
\* candidate's clean_title is at least as large as the candidate, process_message
\* returns duplicate at once and the catalog is unchanged.
C14_SkipFrame ==
  [][\A t \in MonTasks :
       LET m    == pm[t].msg
           same == {r \in files : r.clean_title = file_data(m).clean_title}
       IN  (/\ pm[t].pc = "read" /\ pm'[t].pc # "read"
            /\ same # {} /\ \A r \in same : m.file_size <= r.file_size) =>
             /\ pm'[t].pc = "idle" /\ mon'[t].status = "duplicate"
             /\ files' = files
    ]_vars

\* C16: the year of every stored record is absent or lies between 1900 and the
\* current year plus 2.
C16_YearInRange ==
  \A r \in files : r.year = NoYear \/ is_valid_year(r.year, now)

\* C15: no stored record has the empty string as clean_title.
C15_NoEmptyCleanTitle == \A r \in files : r.clean_title # <<>>

\* C17: whatever call of the store or of the chat platform raises, every
\* operation of the pipeline is at a position of its own code or has returned a
\* result: process_message a status that its caller has counted or kept,
\* handle_new_file a boolean, index_channel_history its stats with a status,
\* clean_database its stats; a failure shows in these results only.
C17_NeverRaises ==
  /\ \A t \in Indexers : pm[t].pc \in {"idle", "read", "write"}
  /\ \A t \in ScanTasks :
       /\ sc[t].pc \in {"idle", "loop", "returned"}
       /\ sc[t].pc = "returned" <=> sc[t].status \in {"completed", "error", "already_running"}
       /\ sc[t].failed <= sc[t].errors
       /\ sc[t].error_message => (sc[t].pc = "returned" /\ sc[t].status = "error")
  /\ \A t \in MonTasks :
       /\ mon[t].pc \in {"idle", "processing", "notify"}
       /\ mon[t].result \in BOOLEAN
       /\ mon[t].status = "error" => (mon[t].pc = "idle" /\ ~mon[t].result)
  /\ \A c \in CleanTasks :
       /\ cl[c].pc \in {"idle", "deleting", "done"}
       /\ cl[c].error => cl[c].pc = "done"

\* A run completed although a store call failed for one of its messages, an
\* event of the Live Monitor ended in an error, and a cleaning pass returned
\* after find_duplicates had raised.
C17_Witness ==
  /\ \E t \in ScanTasks : sc[t].status = "completed" /\ sc[t].failed > 0
  /\ \E t \in MonTasks : mon[t].pc = "idle" /\ mon[t].status = "error"
  /\ \E c \in CleanTasks : cl[c].pc = "done" /\ cl[c].error

\* The callback d counts, in this step, the download of a delivered document.
CountsDelivery(d) == dl[d].pc = "count" /\ dl'[d].pc = "idle"

\* C18: in every step a record that changes keeps or raises its download
\* count and a record that appears starts at 0; the count rises by exactly 1,
\* and only in the step in which handle_file_callback, having delivered the
\* file, counts it; a failed delivery changes no record.
C18_DownloadsMonotone ==
  [][/\ \A r \in files \ files' : \A r2 \in files' \ files :
          /\ r2.downloads >= r.downloads
          /\ r2.downloads > r.downloads =>
               /\ r2.downloads = r.downloads + 1
               /\ \E d \in DlTasks : CountsDelivery(d) /\ dl[d].file_id = r.file_id
     /\ files \ files' = {} => \A r2 \in files' \ files : r2.downloads = 0
     /\ Cardinality(files \ files') <= 1 /\ Cardinality(files' \ files) <= 1
     /\ \A d \in DlTasks : (dl[d].pc = "send" /\ dl'[d].pc = "idle") => files' = files
    ]_vars

\* A record was downloaded twice and updated, and a cleaning pass has removed a
\* duplicate of it.
C18_Witness ==
  /\ \E r \in files : r.downloads = 2 /\ r.updated_at # NoTime
  /\ \E c \in CleanTasks : cl[c].pc = "done" /\ cl[c].removed_duplicates > 0

\* C19: a record that appears has added_at set to the time of its insertion, and
\* no step changes the added_at of a record.
C19_AddedAtImmutable ==
  [][/\ \A r \in files \ files' : \A r2 \in files' \ files : r2.added_at = r.added_at
     /\ files \ files' = {} => \A r2 \in files' \ files : r2.added_at = now
    ]_vars

\* A record inserted at time 0 was updated and downloaded at time 1 and has
\* survived a cleaning pass.
C19_Witness ==
  /\ \E r \in files :
       r.added_at = 0 /\ r.updated_at = 1 /\ r.last_downloaded = 1 /\ r.downloads = 1
  /\ \E c \in CleanTasks : cl[c].pc = "done" /\ cl[c].removed_duplicates > 0

\* C20: a step of clean_database inserts and modifies nothing, and a record it
\* deletes shares its clean_title with another record of the catalog; a record
\* whose clean_title is unique is left as it is.
C20_CleanerDeletesOnlyDuplicates ==
  [][(cl' # cl /\ pm' = pm) =>
       /\ files' \subseteq files
       /\ \A r \in files \ files' :
            \E q \in files : q # r /\ q.clean_title = r.clean_title
    ]_vars

\* An undisturbed pass has removed a duplicate and left the one record of
\* another clean_title in the catalog.
C20_Witness ==
  /\ \E c \in CleanTasks :
       cl[c].pc = "done" /\ ~cl[c].dirty /\ cl[c].removed_duplicates > 0
  /\ \E r \in files : r.clean_title = <<>>
  /\ \E r \in files : r.clean_title # <<>>

C22_NonDocumentFrame ==
  [][\A t \in ScanTasks :
       (sc'[t].total_messages = sc[t].total_messages + 1
          /\ sc'[t].documents = sc[t].documents) =>
         /\ sc'[t].indexed_files = sc[t].indexed_files
         /\ sc'[t].skipped_files = sc[t].skipped_files
         /\ sc'[t].duplicates = sc[t].duplicates
         /\ sc'[t].errors = sc[t].errors
         /\ files' = files /\ pm' = pm
    ]_vars

\* A run has completed over a message without document and a document it indexed.
C22_Witness ==
  \E t \in ScanTasks :
    /\ sc[t].status = "completed" /\ sc[t].total_messages = 2
    /\ sc[t].documents = 1 /\ sc[t].indexed_files = 1

\* The four result counters of a run, added up.
Counted(stats) ==
  stats.indexed_files + stats.duplicates + stats.skipped_files + stats.errors

\* C27: at every point of a run the four counters add up to the number of
\* documents whose processing has returned (the documents visited, less the one
\* process_message is working on), which never exceeds total_messages; and each
\* return of process_message adds one to exactly one counter.
C27_CounterSum ==
  /\ [](\A t \in ScanTasks :
          /\ Counted(sc[t]) = sc[t].documents - (IF pm[t].pc = "idle" THEN 0 ELSE 1)
          /\ sc[t].documents <= sc[t].total_messages)
  /\ [][\A t \in ScanTasks :
          /\ sc'[t].indexed_files \in {sc[t].indexed_files, sc[t].indexed_files + 1}
          /\ sc'[t].duplicates \in {sc[t].duplicates, sc[t].duplicates + 1}
          /\ sc'[t].skipped_files \in {sc[t].skipped_files, sc[t].skipped_files + 1}
          /\ sc'[t].errors \in {sc[t].errors, sc[t].errors + 1}
          /\ Counted(sc'[t]) \in {Counted(sc[t]), Counted(sc[t]) + 1}
       ]_vars

\* A run has completed over two documents, one counted as indexed and one, an
\* update, counted as an error.
C27_Witness ==
  \E t \in ScanTasks :
    /\ sc[t].status = "completed" /\ sc[t].documents = 2
    /\ sc[t].indexed_files = 1 /\ sc[t].errors = 1 /\ sc[t].failed = 0

\* The tags of the three kinds of quality, in lower case.
ResolutionTags ==
  {<<"4", "k">>, <<"2", "1", "6", "0", "p">>, <<"1", "0", "8", "0", "p">>,
   <<"7", "2", "0", "p">>, <<"4", "8", "0", "p">>, <<"3", "6", "0", "p">>}

SourceTags ==
  {<<"b", "l", "u", "r", "a", "y">>, <<"b", "r", "r", "i", "p">>,
   <<"w", "e", "b", "r", "i", "p">>, <<"h", "d", "r", "i", "p">>,
   <<"d", "v", "d", "r", "i", "p">>}

CodecTags ==
  {<<"h", "e", "v", "c">>, <<"x", "2", "6", "4">>, <<"x", "2", "6", "5">>,
   <<"h", ".", "2", "6", "4">>, <<"h", ".", "2", "6", "5">>}

\* The positions of low, a name in lower case, at which a tag of tags stands.
TagsAt(low, tags) ==
  {i \in 1..Len(low) : \E tag \in tags : StartsAt(low, i, tag)}

\* The first tag of tags in name, in any case of letters, as the name writes it;
\* <<>> when the name holds none.
FirstTag(name, tags) ==
  LET low == Lower(name)
      at  == TagsAt(low, tags)
  IN  IF at = {} THEN <<>>
      ELSE LET i   == CHOOSE h \in at : \A k \in at : h <= k
               tag == CHOOSE x \in tags : StartsAt(low, i, x)
           IN  SubSeq(name, i, i + Len(tag) - 1)

\* C23: the quality extract_movie_info returns is the first resolution tag of the
\* file name when the name holds one, wherever tags of source and codec stand;
\* else the first source tag when the name holds one; else the first codec tag
\* when the name holds one; else it is absent.
C23_QualityPriority ==
  ex.pc = "returned" =>
    LET resolution == FirstTag(ex.filename, ResolutionTags)
        source     == FirstTag(ex.filename, SourceTags)
        codec      == FirstTag(ex.filename, CodecTags)
    IN  ex.info.quality =
          IF resolution # <<>> THEN resolution
          ELSE IF source # <<>> THEN source
          ELSE codec

\* The quality of a name that writes a codec tag before a resolution tag in upper
\* case was extracted.
C23_Witness ==
  /\ ex.pc = "returned"
  /\ ex.filename = <<"x", "2", "6", "4", ".", "7", "2", "0", "P", ".", "s", "r", "t">>
  /\ ex.info.quality = <<"7", "2", "0", "P">>

\* The positions of name at which four digits stand that begin with 19 or 20.
YearsAt(name) ==
  {i \in 1..(Len(name) - 3) :
     /\ <<name[i], name[i + 1]>> \in {<<"1", "9">>, <<"2", "0">>}
     /\ name[i + 2] \in Digits /\ name[i + 3] \in Digits}

\* C24: the year extract_movie_info returns is absent exactly when the file name,
\* as it was given, holds no four digits that begin with 19 or 20, and is
\* otherwise the number the first such four digits write, whether or not
\* clean_filename removes them from the title.
C24_YearFromOriginalName ==
  ex.pc = "returned" =>
    LET name == ex.filename
        year == ex.info.year
    IN  /\ year = NoYear <=> YearsAt(name) = {}
        /\ YearsAt(name) # {} =>
             \E i \in YearsAt(name) :
               /\ \A k \in YearsAt(name) : i <= k
               /\ year = 1000 * DigitVal(name[i]) + 100 * DigitVal(name[i + 1])
                         + 10 * DigitVal(name[i + 2]) + DigitVal(name[i + 3])

\* The year of a name was extracted from a bracket that the clean title no longer
\* holds, before a second year that the clean title keeps.
C24_Witness ==
  /\ ex.pc = "returned"
  /\ ex.filename = <<"[", "1", "9", "9", "9", "]", ".", "2", "0", "1", "9", ".", "s", "r", "t">>
  /\ ex.info.year = 1999
  /\ ex.info.clean_title = <<".", "2", "0", "1", "9">>

\* C25: when process_message returns updated, the catalog holds a record with the
\* candidate's clean_title that carries the candidate's file_id and file_size.
C25_UpdatedIsTrue ==
  [][\A t \in Indexers :
       (pm[t].pc = "write" /\ pm[t].op = "update" /\ pm'[t].pc = "idle") =>
         LET m == pm[t].msg
         IN  \E r \in files' :
               /\ r.clean_title = file_data(m).clean_title
               /\ r.file_id = m.file_id /\ r.file_size = m.file_size
    ]_vars

\* C26: when a pass of clean_database ends, every clean_title the catalog held
\* when the pass began is still the clean_title of a record.
C26_CleanerKeepsOne ==
  [][\A c \in CleanTasks :
       (cl[c].pc = "deleting" /\ cl'[c].pc = "done") =>
         \A k \in cl[c].titles : \E r \in files' : r.clean_title = k
    ]_vars

\* C28: a pass starts its count at 0, and each delete_file call it makes adds to
\* removed_duplicates the number of records the call removed from the catalog: 1
\* when the record was there, 0 when the call failed or matched no record.
C28_RemovedCountIsExact ==
  [][\A c \in CleanTasks :
       /\ (cl[c].pc # "deleting" /\ cl'[c].pc # cl[c].pc) => cl'[c].removed_duplicates = 0
       /\ (cl[c].pc = "deleting" /\ cl'[c].todo # cl[c].todo) =>
            cl'[c].removed_duplicates =
              cl[c].removed_duplicates + Cardinality(files \ files')
    ]_vars

\* C29: when no call of broadcast_message and no call of cancel_broadcast is in
\* progress, the broadcasting flag is clear.
C29_BroadcastFlagReleased ==
  (/\ \A b \in BroadcastTasks : bc[b].pc \in {"idle", "returned", "raised"}
   /\ \A c \in CancelTasks : cc[c].pc \in {"idle", "returned"}) =>
    ~bm.broadcasting

\* The calls of broadcast_message that are in the loop that sends the batches.
SendLoops == {b \in BroadcastTasks : bc[b].pc = "loop"}

\* C30: at most one call of broadcast_message is in its send loop at any time,
\* and a broadcast that was in progress when cancel_broadcast returned True
\* sends no further batch.
C30_SingleBroadcastLoop ==
  /\ [](Cardinality(SendLoops) <= 1)
  /\ [][\A b \in BroadcastTasks : bc[b].cancelled => bc'[b].sent = bc[b].sent]_vars

====
